---- MODULE Spec2Model ----
(***************************************************************************)
(* RegProxy (twilightty/ch4n): the concurrent proxy validation engine.     *)
(*                                                                         *)
(* One validation cycle is modelled: a caller hands a list of proxy        *)
(* addresses to a dispatcher, the dispatcher starts one goroutine per      *)
(* address, every goroutine passes a counting semaphore (a buffered        *)
(* channel), runs one probe and sends its result on a result channel, and  *)
(* the caller collects the results and (in the daemon) reduces them to the *)
(* next working set.                                                       *)
(*                                                                         *)
(* Three callers exist in the source and all three are modelled:           *)
(*   "daemon_v1"  Daemon.testProxies, src/daemon/daemon.go:176-278,        *)
(*                over ElevenLabsTester.TestProxies                        *)
(*   "daemon_v2"  Daemon.testProxies, src/daemon/daemon.go:581-636,        *)
(*                over ElevenLabsTester.TestProxies                        *)
(*   "generic"    ProxyTester.TestProxies, src/crawler/tester.go:53-115    *)
(*                                                                         *)
(* Go's select is modelled as the runtime executes it: a goroutine that    *)
(* reaches a select with several ready cases takes any of them; a          *)
(* goroutine that found no ready case is parked on the wait queues of its  *)
(* channels and is resumed by the first event on one of them (a slot       *)
(* handed over by a releasing worker, or the closing of ctx.Done()), which *)
(* also decides the case it takes.                                         *)
(*                                                                         *)
(* Addresses are the numbers 1..n; their numeric order stands for the      *)
(* lexicographic order sort.Strings uses.                                  *)
(*                                                                         *)
(* CycleSpec is the daemon around the cycles (NewDaemon, Daemon.Run):      *)
(* the working set is loaded, then the initial crawl, the ticker and the   *)
(* crawl ticker start cycles until the shutdown signal.  There a dispatch  *)
(* is one step whose result is any collection TestProxies can return.      *)
(***************************************************************************)
EXTENDS Integers, Sequences, FiniteSets, TLC

\* ---------------------------------------------------------------- bounds
MaxProxies == 2        \* longest address list handed to a dispatcher
MaxWorkers == 1        \* largest concurrency limit (maxWorkers / Threads)
MaxKeep    == 1        \* largest KeepWorkingProxies
MaxElapsed == 2        \* longest time a single probe takes

Workers == 1..MaxProxies

VARIABLES
    variant,           \* which caller runs the cycle
    testType,          \* "crawl" | "maintenance" (daemon only)
    proxies,           \* the address list of the cycle
    maxWorkers,        \* concurrency limit
    mongoStorage,      \* d.mongoStorage != nil
    keepWorkingProxies,\* config.Proxy.KeepWorkingProxies
    ctxDone,           \* ctx.Done() is closed (cancelled or past deadline)
    pc,                \* position of each worker goroutine
    res,               \* each worker's local `result`
    semaphore,         \* number of tokens in the semaphore channel
    sendq,             \* workers parked on `semaphore <- struct{}{}`, FIFO
    resultsChan,       \* buffered result channel
    chanClosed,        \* generic: close(results) has happened
    wg,                \* generic: sync.WaitGroup counter
    closerPc,          \* generic: the goroutine of wg.Wait(); close(results)
    cpc,               \* position of the caller (collector, then reducer)
    results,           \* ElevenLabsTester: the collected []TestResult
    ptWorking,         \* generic: the local workingProxies
    totalTested,       \* generic: totalTested
    workingProxies,    \* d.workingProxies
    fileSaved,         \* content of the working-proxies file
    mongoSaved,        \* addresses last handed to SaveWorkingProxies
    probeCount,        \* observer: calls of TestProxy/testProxy per address
    delivered,         \* observer: when each result was sent to the channel
    testSampleSize,    \* config.Proxy.TestSampleSize
    trigger,           \* the branch of Run that started the cycle
    crawl,             \* what CrawlProxies returned in the cycle
    err,               \* the error the cycle returned to Run
    saveLog,           \* observer: the persistence calls of the cycle
    outcome,           \* observer: what the network did to a single probe
    pending,           \* ticker.C, crawlTicker.C, sigChan: what is buffered
    loaded             \* observer: what loadWorkingProxies met at startup

vars == <<variant, testType, proxies, maxWorkers, mongoStorage,
          keepWorkingProxies, ctxDone, pc, res, semaphore, sendq,
          resultsChan, chanClosed, wg, closerPc, cpc, results, ptWorking,
          totalTested, workingProxies, fileSaved, mongoSaved, probeCount,
          delivered, testSampleSize, trigger, crawl, err, saveLog,
          outcome, pending, loaded>>

config == <<variant, testType, proxies, maxWorkers, mongoStorage,
            keepWorkingProxies>>
genericVars == <<chanClosed, wg, closerPc, ptWorking, totalTested>>
daemonVars == <<workingProxies, fileSaved, mongoSaved>>
cycleVars == <<testSampleSize, trigger, crawl, err, saveLog, outcome,
               pending, loaded>>
workerVars == <<ctxDone, pc, res, semaphore, sendq, resultsChan, probeCount,
                delivered>>

\* --------------------------------------------------------------- helpers
Range(s) == {s[i] : i \in 1..Len(s)}

Iota(n) == [i \in 1..n |-> i]

IsDaemon == variant \in {"daemon_v1", "daemon_v2"}

NoResult == [Proxy |-> 0, IsWorking |-> FALSE, StatusCode |-> 0,
             Latency |-> 0, Error |-> "nil", ResponseLen |-> 0]

\* CrawlProxies has not been called in the cycle
NoCrawl ==
    [called |-> FALSE, list |-> <<>>, failed |-> FALSE, err |-> "nil"]

\* no persistence call was made in the cycle; otherwise "ok" or "failed"
NoSave == [file |-> "none", mongo |-> "none"]

\* nothing was loaded yet: neither the store nor the file was asked
NoLoad == [mongo |-> "none", answer |-> <<>>, file |-> "none"]

\* ---------------------------------------------------------------- probes
\* What the network does to one probe.  kind: "parse" (url.Parse fails),
\* "newreq" (NewRequestWithContext fails), "do" (client.Do fails:
\* connection error, timeout, cancelled context), "resp" (a response with
\* a status arrived; readOk tells whether io.ReadAll succeeded).
Outcome(kind, status, elapsed, readOk, bodyLen) ==
    [kind |-> kind, status |-> status, elapsed |-> elapsed,
     readOk |-> readOk, bodyLen |-> bodyLen]

\* no probe has met the network yet
NoOutcome == Outcome("none", 0, 0, FALSE, 0)

\* outcomes drawn by the probes of a dispatch: a failed connection (or
\* timeout) and a 200 response
DispatchOutcomes ==
    {Outcome("do", 0, 0, FALSE, 0),
     Outcome("resp", 200, 1, TRUE, 1)}

\* outcomes open to a probe entered after the context was done
LateOutcomes == {o \in DispatchOutcomes : o.kind # "resp"}

\* a success test that accepts 200 alone
IsSuccess200Only(status) == status = 200

\* resp.StatusCode >= 200 && resp.StatusCode < 300
IsSuccess(status) == status >= 200 /\ status < 300

\* a probe that reports no reason for a refused status
HttpErrorDropped(status) == "nil"

\* fmt.Errorf("HTTP %d...", resp.StatusCode)
HttpError(status) == "HTTP"

\* ElevenLabsTester.TestProxy
TestProxy(proxyAddr, o) ==
    LET result == [NoResult EXCEPT !.Proxy = proxyAddr] IN
    IF o.kind = "parse"
    THEN [result EXCEPT !.Error = "invalid proxy URL"]
    ELSE IF o.kind = "newreq"
    THEN [result EXCEPT !.Error = "error creating request"]
    ELSE IF o.kind = "do"
    THEN [result EXCEPT !.Error = "do"]
    ELSE LET r1 == [result EXCEPT !.Latency = o.elapsed,
                                  !.StatusCode = o.status] IN
         IF ~o.readOk
         THEN [r1 EXCEPT !.Error = "error reading response"]
         ELSE LET r2 == [r1 EXCEPT !.ResponseLen = o.bodyLen] IN
              IF IsSuccess(o.status)
              THEN [r2 EXCEPT !.IsWorking = TRUE]
              ELSE [r2 EXCEPT !.Error = HttpError(o.status)]

\* a generic probe that takes every 2xx status for a success
IsAny2xx(status) == status >= 200 /\ status < 300

\* testProxy: resp.StatusCode == http.StatusOK
IsStatusOK(status) == status = 200

\* ProxyTester.testProxy: no body read, success is status 200 exactly
testProxy(proxy, o) ==
    LET result == [NoResult EXCEPT !.Proxy = proxy] IN
    IF o.kind = "parse"
    THEN [result EXCEPT !.Error = "invalid proxy URL"]
    ELSE IF o.kind = "newreq"
    THEN [result EXCEPT !.Error = "error creating request"]
    ELSE IF o.kind = "do"
    THEN [result EXCEPT !.Error = "do"]
    ELSE LET r1 == [result EXCEPT !.Latency = o.elapsed] IN
         IF IsStatusOK(o.status)
         THEN [r1 EXCEPT !.IsWorking = TRUE]
         ELSE [r1 EXCEPT !.Error = HttpError(o.status)]

ProbeResult(addr, o) ==
    IF variant = "generic" THEN testProxy(addr, o) ELSE TestProxy(addr, o)

\* ------------------------------------------------------------------ Init
Init ==
    /\ variant \in {"daemon_v1", "daemon_v2", "generic"}
    /\ \E n \in 0..MaxProxies : proxies = Iota(n)
    /\ maxWorkers \in 0..MaxWorkers
    /\ testType \in {"crawl", "maintenance"}
    /\ mongoStorage \in BOOLEAN
    /\ keepWorkingProxies \in 0..MaxKeep
    \* the generic tester has no daemon around it
    /\ variant = "generic" =>
          testType = "crawl" /\ ~mongoStorage /\ keepWorkingProxies = 0
    \* a maintenance cycle re-tests the (non-empty) current working set
    /\ testType = "maintenance" => proxies # <<>>
    /\ workingProxies = IF testType = "maintenance" THEN proxies ELSE <<>>
    /\ fileSaved = workingProxies
    /\ mongoSaved = <<>>
    /\ ctxDone = FALSE
    /\ pc = [w \in Workers |-> "none"]
    /\ res = [w \in Workers |-> NoResult]
    /\ semaphore = 0
    /\ sendq = <<>>
    /\ resultsChan = <<>>
    /\ chanClosed = FALSE
    /\ wg = 0
    /\ closerPc = "none"
    /\ cpc = "idle"
    /\ results = <<>>
    /\ ptWorking = <<>>
    /\ totalTested = 0
    /\ probeCount = [w \in Workers |-> 0]
    /\ delivered = [w \in Workers |-> "no"]
    /\ testSampleSize = MaxProxies
    /\ trigger = "none"
    /\ crawl = NoCrawl
    /\ err = "none"
    /\ saveLog = NoSave
    /\ outcome = NoOutcome
    /\ pending = {}
    /\ loaded = NoLoad

\* a panic of the caller's goroutine ends the process and all its goroutines
Alive == cpc \notin {"panicked", "sample_panicked"}

\* ------------------------------------------------- the admission gate
\* a gate that admits regardless of the tokens already handed out
CanAcquireUnbounded(sem, limit) == TRUE

\* `semaphore <- struct{}{}` can proceed: the buffer has room
CanAcquire(sem, limit) == sem < limit

\* an admission select whose send case is ready at any time
AdmissionAlwaysReady(sem, limit, done) ==
    {"acquire"} \cup (IF done THEN {"cancel"} ELSE {})

\* the cases of the admission select that are ready
AdmissionCases(sem, limit, done) ==
    (IF CanAcquire(sem, limit) THEN {"acquire"} ELSE {})
    \cup (IF done THEN {"cancel"} ELSE {})

\* a worker that returns without giving its slot back
ReleaseForgotten(sem, q) == [sem |-> sem, woken |-> {}, q |-> q]

\* `<-semaphore`: with a sender parked on the full channel the token is
\* replaced by the sender's (the count stays and the sender is resumed
\* holding the slot); otherwise the count drops
Release(sem, q) ==
    IF q # <<>>
    THEN [sem |-> sem, woken |-> {Head(q)}, q |-> Tail(q)]
    ELSE [sem |-> sem - 1, woken |-> {}, q |-> q]

\* an admission select without the ctx.Done() case
WokenByNone(q) == {}

\* closing ctx.Done() resumes every goroutine parked on it
WokenByCancel(q) == Range(q)

\* a sink that stores a result twice
ChanSendTwice(ch, r) == Append(Append(ch, r), r)

\* resultsChan <- result on the buffered channel
ChanSend(ch, r) == Append(ch, r)

\* a worker that returns early when its probe failed
SendOnlyWorking(r) == IF r.IsWorking THEN "send" ELSE "release"

\* after the probe returned, the worker goes on to send the result,
\* whatever the result is
NextAfterProbe(r) == "send"

\* ------------------------------------------------------------ start
\* a testProxies that goes on with an empty list
EmptyListGoesOn(list) == FALSE

\* testProxies: if len(proxies) == 0 { return nil }
EmptyListReturns(list) == Len(list) = 0

\* Daemon.testProxies with an empty list: return nil at once
DaemonSkip ==
    /\ IsDaemon /\ cpc = "idle" /\ EmptyListReturns(proxies)
    /\ cpc' = "skipped"
    /\ err' = "nil"
    /\ UNCHANGED <<config, testSampleSize, outcome, pending, loaded, trigger,
                   crawl, saveLog, results,
                   workerVars, genericVars, daemonVars>>

Spawned == [w \in Workers |-> IF w <= Len(proxies) THEN "start" ELSE "none"]

\* Daemon.testProxies calls ElevenLabsTester.TestProxies, which starts one
\* goroutine per address and enters its collect loop
ElevenTestProxies ==
    /\ IsDaemon /\ cpc = "idle" /\ ~EmptyListReturns(proxies)
    /\ pc' = Spawned
    /\ cpc' = "collect"
    /\ UNCHANGED <<config, cycleVars,
                   ctxDone, res, semaphore, sendq, resultsChan,
                   results, probeCount, delivered, genericVars, daemonVars>>

\* a wait group that is told of one goroutine only
WgAddOnce(n) == IF n > 0 THEN 1 ELSE 0

\* wg.Add(1) before each go statement: len(proxies) in all
WgAdd(n) == n

\* ProxyTester.TestProxies: wg.Add(1) and go per address, then the closer
\* goroutine, then the range loop
PtTestProxies ==
    /\ variant = "generic" /\ cpc = "idle"
    /\ pc' = Spawned
    /\ wg' = WgAdd(Len(proxies))
    /\ closerPc' = "wait"
    /\ cpc' = "collect"
    /\ UNCHANGED <<config, cycleVars,
                   ctxDone, res, semaphore, sendq, resultsChan,
                   results, probeCount, delivered, chanClosed, ptWorking,
                   totalTested, daemonVars>>

\* ----------------------------------------------------------- workers
\* the position of a worker that has just got its slot: it defers the
\* release and enters the probe, with the context done already or not
Entered(done) == IF done THEN "probe_late" ELSE "probe"

\* select: case semaphore <- struct{}{}, then
\* result := e.TestProxy(ctx, proxyAddr) is entered
WorkerAcquire(w) ==
    /\ Alive
    /\ pc[w] = "start"
    /\ "acquire" \in AdmissionCases(semaphore, maxWorkers, ctxDone)
    /\ semaphore' = semaphore + 1
    /\ pc' = [pc EXCEPT ![w] = Entered(ctxDone)]
    /\ probeCount' = [probeCount EXCEPT ![w] = @ + 1]
    /\ UNCHANGED <<config, cycleVars,
                   ctxDone, res, sendq, resultsChan, cpc, results,
                   delivered, genericVars, daemonVars>>

\* select: case <-ctx.Done(): return   (generic: the deferred wg.Done())
WorkerAbandon(w) ==
    /\ Alive
    /\ \/ pc[w] = "start"
          /\ "cancel" \in AdmissionCases(semaphore, maxWorkers, ctxDone)
       \/ pc[w] = "abandon"
    /\ pc' = [pc EXCEPT ![w] = "done"]
    /\ wg' = IF variant = "generic" THEN wg - 1 ELSE wg
    /\ UNCHANGED <<config, cycleVars,
                   ctxDone, res, semaphore, sendq, resultsChan, cpc,
                   results, probeCount, delivered, chanClosed, closerPc,
                   ptWorking, totalTested, daemonVars>>

\* select with no ready case: the goroutine parks on both channels
WorkerPark(w) ==
    /\ Alive
    /\ pc[w] = "start"
    /\ AdmissionCases(semaphore, maxWorkers, ctxDone) = {}
    /\ sendq' = Append(sendq, w)
    /\ pc' = [pc EXCEPT ![w] = "parked"]
    /\ UNCHANGED <<config, cycleVars,
                   ctxDone, res, semaphore, resultsChan, cpc,
                   results, probeCount, delivered, genericVars, daemonVars>>

\* the probe returns; one entered with a context that was already done
\* cannot obtain a response (the transport checks ctx.Done() first)
ProbeFinish(w) ==
    /\ Alive
    /\ pc[w] \in {"probe", "probe_late"}
    /\ \E o \in DispatchOutcomes :
          /\ pc[w] = "probe_late" => o \in LateOutcomes
          /\ res' = [res EXCEPT ![w] = ProbeResult(proxies[w], o)]
          /\ pc' = [pc EXCEPT
                      ![w] = NextAfterProbe(ProbeResult(proxies[w], o))]
    /\ UNCHANGED <<config, cycleVars,
                   ctxDone, semaphore, sendq, resultsChan, cpc,
                   results, probeCount, delivered, genericVars, daemonVars>>

\* a result channel without a buffer
ResultCapNone(n) == 0

\* make(chan TestResult, len(proxies)): the capacity of the result channel
ResultCap(n) == n

\* resultsChan <- result: the send waits while the buffer is full, which
\* with len(proxies) places never happens; a collector parked in its select
\* is resumed with it
WorkerSend(w) ==
    /\ Alive
    /\ pc[w] = "send"
    /\ Len(resultsChan) < ResultCap(Len(proxies))
    /\ resultsChan' = ChanSend(resultsChan, res[w])
    /\ delivered' = [delivered EXCEPT
                        ![w] = IF ctxDone THEN "after" ELSE "before"]
    /\ cpc' = IF cpc = "parked" THEN "woken_recv" ELSE cpc
    /\ pc' = [pc EXCEPT ![w] = "release"]
    /\ UNCHANGED <<config, cycleVars,
                   ctxDone, res, semaphore, sendq, results,
                   probeCount, genericVars, daemonVars>>

\* defer func() { <-semaphore }(); a parked worker that is handed the slot
\* is resumed on its send case and enters its probe
WorkerRelease(w) ==
    /\ Alive
    /\ pc[w] = "release"
    /\ LET r == Release(semaphore, sendq) IN
          /\ semaphore' = r.sem
          /\ sendq' = r.q
          /\ pc' = [v \in Workers |->
                      IF v = w
                      THEN (IF variant = "generic" THEN "wgdone" ELSE "done")
                      ELSE IF v \in r.woken THEN Entered(ctxDone)
                      ELSE pc[v]]
          /\ probeCount' = [v \in Workers |->
                              IF v \in r.woken THEN probeCount[v] + 1
                              ELSE probeCount[v]]
    /\ UNCHANGED <<config, cycleVars,
                   ctxDone, res, resultsChan, cpc, results,
                   delivered, genericVars, daemonVars>>

\* generic: defer wg.Done()
WorkerWgDone(w) ==
    /\ Alive
    /\ pc[w] = "wgdone"
    /\ wg' = wg - 1
    /\ pc' = [pc EXCEPT ![w] = "done"]
    /\ UNCHANGED <<config, cycleVars,
                   ctxDone, res, semaphore, sendq, resultsChan, cpc,
                   results, probeCount, delivered, chanClosed, closerPc,
                   ptWorking, totalTested, daemonVars>>

\* ------------------------------------------------------ cancellation
\* the context is cancelled or its deadline passes: ctx.Done() is closed
Cancel ==
    /\ Alive
    /\ ~ctxDone
    /\ ctxDone' = TRUE
    /\ pc' = [w \in Workers |->
                IF pc[w] = "parked" /\ w \in WokenByCancel(sendq)
                THEN "abandon" ELSE pc[w]]
    /\ sendq' = SelectSeq(sendq, LAMBDA w : w \notin WokenByCancel(sendq))
    /\ cpc' = IF cpc = "parked" THEN "woken_done" ELSE cpc
    /\ UNCHANGED <<config, cycleVars,
                   res, semaphore, resultsChan, results, probeCount,
                   delivered, genericVars, daemonVars>>


\* ---------------------------------- ElevenLabsTester: the collect loop
\* a collect loop that stops one iteration early
LoopDoneEarly(i, n) == i >= n - 1

\* for i := 0; i < len(proxies); i++   (i is len(results))
LoopDone(i, n) == i >= n

\* a cancel branch that returns nil instead of the collected results
ReturnedNil(rs) == <<>>

\* case <-ctx.Done(): return results
ReturnedOnCancel(rs) == rs

\* the loop has run len(proxies) times: return results
CollectLoopExit ==
    /\ IsDaemon /\ cpc = "collect"
    /\ LoopDone(Len(results), Len(proxies))
    /\ cpc' = "returned"
    /\ UNCHANGED <<config, cycleVars,
                   ctxDone, pc, res, semaphore, sendq, resultsChan,
                   results, probeCount, delivered, genericVars, daemonVars>>

\* case result := <-resultsChan: results = append(results, result)
CollectRecv ==
    /\ IsDaemon
    /\ \/ cpc = "collect" /\ ~LoopDone(Len(results), Len(proxies))
       \/ cpc = "woken_recv"
    /\ resultsChan # <<>>
    /\ results' = Append(results, Head(resultsChan))
    /\ resultsChan' = Tail(resultsChan)
    /\ cpc' = "collect"
    /\ UNCHANGED <<config, cycleVars,
                   ctxDone, pc, res, semaphore, sendq, probeCount,
                   delivered, genericVars, daemonVars>>

\* case <-ctx.Done(): return results
CollectCancel ==
    /\ IsDaemon
    /\ \/ cpc = "collect" /\ ~LoopDone(Len(results), Len(proxies)) /\ ctxDone
       \/ cpc = "woken_done"
    /\ results' = ReturnedOnCancel(results)
    /\ cpc' = "returned"
    /\ UNCHANGED <<config, cycleVars,
                   ctxDone, pc, res, semaphore, sendq, resultsChan,
                   probeCount, delivered, genericVars, daemonVars>>

\* no case of the collector's select is ready
CollectPark ==
    /\ IsDaemon /\ cpc = "collect"
    /\ ~LoopDone(Len(results), Len(proxies))
    /\ resultsChan = <<>> /\ ~ctxDone
    /\ cpc' = "parked"
    /\ UNCHANGED <<config, cycleVars,
                   ctxDone, pc, res, semaphore, sendq, resultsChan,
                   results, probeCount, delivered, genericVars, daemonVars>>

\* ------------------------------------- ProxyTester: closer and range loop
\* a closer that does not wait for the workers
WaitReturnsEarly(n) == TRUE

\* wg.Wait() returns
WaitReturns(n) == n = 0

CloserWait ==
    /\ closerPc = "wait"
    /\ WaitReturns(wg)
    /\ closerPc' = "close"
    /\ UNCHANGED <<config, cycleVars,
                   ctxDone, pc, res, semaphore, sendq, resultsChan,
                   cpc, results, probeCount, delivered, chanClosed, wg,
                   ptWorking, totalTested, daemonVars>>

\* close(results)
CloserClose ==
    /\ closerPc = "close"
    /\ chanClosed' = TRUE
    /\ closerPc' = "done"
    /\ UNCHANGED <<config, cycleVars,
                   ctxDone, pc, res, semaphore, sendq, resultsChan,
                   cpc, results, probeCount, delivered, wg, ptWorking,
                   totalTested, daemonVars>>

\* for result := range results { ... }   one iteration
PtCollect ==
    /\ variant = "generic" /\ cpc = "collect"
    /\ resultsChan # <<>>
    /\ totalTested' = totalTested + 1
    /\ ptWorking' = IF Head(resultsChan).IsWorking
                    THEN Append(ptWorking, Head(resultsChan).Proxy)
                    ELSE ptWorking
    /\ resultsChan' = Tail(resultsChan)
    /\ UNCHANGED <<config, cycleVars,
                   ctxDone, pc, res, semaphore, sendq, cpc, results,
                   probeCount, delivered, chanClosed, wg, closerPc,
                   daemonVars>>

\* the channel is closed and drained: the range loop ends, the call returns
PtCollectEnd ==
    /\ variant = "generic" /\ cpc = "collect"
    /\ resultsChan = <<>> /\ chanClosed
    /\ cpc' = "returned"
    /\ UNCHANGED <<config, cycleVars,
                   ctxDone, pc, res, semaphore, sendq, resultsChan,
                   results, probeCount, delivered, genericVars, daemonVars>>

\* ------------------------------------------------------------ reducer
FilterWorking(rs) == SelectSeq(rs, LAMBDA r : r.IsWorking)

Addrs(rs) == [i \in 1..Len(rs) |-> rs[i].Proxy]

\* api.GetWorkingProxies
GetWorkingProxies(rs) == Addrs(FilterWorking(rs))

RECURSIVE Insert(_, _)
Insert(x, s) ==
    IF s = <<>> THEN <<x>>
    ELSE IF x <= Head(s) THEN <<x>> \o s
    ELSE <<Head(s)>> \o Insert(x, Tail(s))

RECURSIVE SortStrings(_)
\* sort.Strings: ascending by the address string
SortStrings(s) ==
    IF s = <<>> THEN <<>> ELSE Insert(Head(s), SortStrings(Tail(s)))

\* s[:k] of a slice with more than k elements
Truncate(s, k) == SubSeq(s, 1, k)

\* s[:k] panics when k exceeds cap(s); cap is 0 for the nil slice, and at
\* least len(s) for a slice built by append
SlicePanics(s, k) == k > Len(s)

\* daemon_v1: the slice of storage records built in the result loop; it
\* stays nil when d.mongoStorage is nil
WorkingResults(rs, mongo) == IF mongo THEN FilterWorking(rs) ELSE <<>>

StorageRecords(rs) ==
    [i \in 1..Len(rs) |-> [Address |-> rs[i].Proxy,
                           IsWorking |-> rs[i].IsWorking]]

\* the outcome of one write, as the log records it
Logged(ok) == IF ok THEN "ok" ELSE "failed"

\* a cycle that hands a failed write on to Run
ReturnSaveError(fileOk, mongoOk) ==
    IF fileOk /\ mongoOk THEN "nil" ELSE "error"

\* the errors of SaveWorkingProxies and saveWorkingProxies are logged and
\* testProxies ends with `return nil`
ReturnAfterSave(fileOk, mongoOk) == "nil"

\* a publish step that leaves the file alone when no proxy works
FileWriteUnlessEmpty(kept) == Len(kept) > 0

\* d.saveWorkingProxies() is called whatever the new working set is
FileWriteInvoked(kept) == TRUE

\* Crawler.SaveToFile: the file after the call, and what the log shows
FileAfter(invoked, fileOk, kept, old) ==
    IF invoked /\ fileOk THEN kept ELSE old

FileLogged(invoked, fileOk) == IF invoked THEN Logged(fileOk) ELSE "none"

\* a reducer that keeps the working addresses in the order of arrival
KeptUnsorted(rs, keep) ==
    LET arrived == GetWorkingProxies(rs)
    IN IF Len(arrived) > keep THEN Truncate(arrived, keep) ELSE arrived

\* sort.Strings, then the cut to KeepWorkingProxies entries
Kept(rs, keep) ==
    LET sorted == SortStrings(GetWorkingProxies(rs))
    IN IF Len(sorted) > keep THEN Truncate(sorted, keep) ELSE sorted

\* a reducer that runs while the results are still being collected
ReduceWhileCollecting == cpc \in {"collect", "returned"}

\* testProxies reduces once d.tester.TestProxies has returned its results
ReduceAfterReturn == cpc = "returned"

\* Daemon.testProxies (first file), from the return of TestProxies on
DaemonReduceV1 ==
    /\ variant = "daemon_v1" /\ ReduceAfterReturn
    /\ LET kept == Kept(results, keepWorkingProxies)
           wres == WorkingResults(results, mongoStorage)
           over == Len(GetWorkingProxies(results)) > keepWorkingProxies
       IN IF over /\ SlicePanics(wres, keepWorkingProxies)
          THEN /\ cpc' = "panicked"
               /\ UNCHANGED <<daemonVars, err, saveLog>>
          ELSE LET wkept == IF over THEN Truncate(wres, keepWorkingProxies)
                            ELSE wres
                   toMongo == mongoStorage /\ Len(wkept) > 0
               IN /\ cpc' = "published"
                  /\ workingProxies' = kept
                  /\ mongoSaved' = IF toMongo THEN StorageRecords(wkept)
                                   ELSE mongoSaved
                  /\ \E fileOk \in BOOLEAN, mongoOk \in BOOLEAN :
                        /\ ~toMongo => mongoOk
                        /\ fileSaved' = FileAfter(FileWriteInvoked(kept),
                                                  fileOk, kept, fileSaved)
                        /\ saveLog' = [file |-> FileLogged(
                                          FileWriteInvoked(kept), fileOk),
                                       mongo |-> IF toMongo
                                                 THEN Logged(mongoOk)
                                                 ELSE "none"]
                        /\ err' = ReturnAfterSave(fileOk, mongoOk)
    /\ UNCHANGED <<config, testSampleSize, outcome, pending, loaded, trigger,
                   crawl, results,
                   workerVars, genericVars>>

\* Daemon.testProxies (second file), from the return of TestProxies on
DaemonReduceV2 ==
    /\ variant = "daemon_v2" /\ ReduceAfterReturn
    /\ LET kept == Kept(results, keepWorkingProxies)
       IN /\ cpc' = "published"
          /\ workingProxies' = kept
          /\ mongoSaved' = IF mongoStorage THEN StorageRecords(results)
                           ELSE mongoSaved
          /\ \E fileOk \in BOOLEAN, mongoOk \in BOOLEAN :
                /\ ~mongoStorage => mongoOk
                /\ fileSaved' = FileAfter(FileWriteInvoked(kept), fileOk,
                                          kept, fileSaved)
                /\ saveLog' = [file |-> FileLogged(FileWriteInvoked(kept),
                                                   fileOk),
                               mongo |-> IF mongoStorage
                                         THEN Logged(mongoOk)
                                         ELSE "none"]
                /\ err' = ReturnAfterSave(fileOk, mongoOk)
    /\ UNCHANGED <<config, testSampleSize, outcome, pending, loaded, trigger,
                   crawl, results,
                   workerVars, genericVars>>

\* --------------------------------------------------- files and sources
\* a line of a proxy file or of a fetched source: the addresses 1..n, and
\* 0 for any line that is not a well-formed ip:port
Lines == 0..MaxProxies

\* the texts of at most MaxProxies lines
Texts == UNION {[1..n -> Lines] : n \in 0..MaxProxies}

\* Crawler.validateProxy
validateProxy(line) == line >= 1

\* Crawler.LoadFromFile: the valid lines, in the order of the file
LoadFromFile(text) == SelectSeq(text, validateProxy)

\* the ascending sequence of the members of a set of addresses
SortedSeq(S) ==
    CHOOSE s \in [1..Cardinality(S) -> S] :
       \A i, j \in 1..Cardinality(S) : i < j => s[i] < s[j]

\* Crawler.CrawlProxies over all lines the sources delivered: the lines are
\* the keys of a map, the valid keys are collected and sorted
CrawlProxies(raw) == SortedSeq({a \in Range(raw) : validateProxy(a)})

\* the error CrawlProxies returns: nil, also when every source failed
CrawlProxiesErr(raw, failed) == "nil"

\* MongoStorage.GetWorkingProxies(ctx, limit): an error, or addresses of
\* distinct documents (the address index is unique), at most limit of
\* them; SetLimit(0) sets no limit
MongoAnswers(limit) ==
    {[failed |-> TRUE, list |-> <<>>]} \cup
    {[failed |-> FALSE, list |-> t] : t \in
        {t \in Texts : /\ \A i \in 1..Len(t) : validateProxy(t[i])
                       /\ \A i, j \in 1..Len(t) : i # j => t[i] # t[j]
                       /\ limit > 0 => Len(t) <= limit}}

\* a load that takes any answer of the store, an empty one too
FromStoreAlsoEmpty(mongo, answer) == mongo /\ ~answer.failed

\* loadWorkingProxies: d.mongoStorage != nil, err == nil and
\* len(mongoProxies) > 0: the answer of the store is taken
FromStore(mongo, answer) ==
    mongo /\ ~answer.failed /\ Len(answer.list) > 0

\* Daemon.loadWorkingProxies: the value of d.workingProxies after it
loadWorkingProxies(mongo, answer, fileOk, text, old) ==
    IF FromStore(mongo, answer)
    THEN answer.list
    ELSE IF fileOk THEN LoadFromFile(text) ELSE old

\* crawlAndTestProxies: sampleSize after the comparison with len(proxies)
SampleSize(list, size) == IF Len(list) < size THEN Len(list) ELSE size

\* proxies[:sampleSize] panics for a negative bound
SamplePanics(list, size) == SampleSize(list, size) < 0

\* testSample := proxies[:sampleSize]
Sample(list, size) == SubSeq(list, 1, SampleSize(list, size))

\* ------------------------------------------------- the cycle controller
\* NewDaemon: d.workingProxies is nil, the file is whatever is on disk
CycleInit ==
    /\ variant \in {"daemon_v1", "daemon_v2"}
    /\ mongoStorage \in BOOLEAN
    /\ keepWorkingProxies \in 0..MaxKeep
    /\ testSampleSize \in -1..MaxProxies
    /\ maxWorkers = MaxWorkers
    /\ fileSaved \in Texts
    /\ workingProxies = <<>>
    /\ mongoSaved = <<>>
    /\ proxies = <<>>
    /\ testType = "crawl"
    /\ cpc = "new"
    /\ ctxDone = FALSE
    /\ pc = [w \in Workers |-> "none"]
    /\ res = [w \in Workers |-> NoResult]
    /\ semaphore = 0
    /\ sendq = <<>>
    /\ resultsChan = <<>>
    /\ chanClosed = FALSE
    /\ wg = 0
    /\ closerPc = "none"
    /\ results = <<>>
    /\ ptWorking = <<>>
    /\ totalTested = 0
    /\ probeCount = [w \in Workers |-> 0]
    /\ delivered = [w \in Workers |-> "no"]
    /\ trigger = "none"
    /\ crawl = NoCrawl
    /\ err = "none"
    /\ saveLog = NoSave
    /\ outcome = NoOutcome
    /\ pending = {}
    /\ loaded = NoLoad

\* NewDaemon: daemon.loadWorkingProxies(); its error is only logged
LoadWorkingProxies ==
    /\ cpc = "new"
    /\ \E answer \in MongoAnswers(keepWorkingProxies), fileOk \in BOOLEAN :
          /\ ~mongoStorage => answer.failed
          /\ FromStore(mongoStorage, answer) => fileOk
          /\ workingProxies' = loadWorkingProxies(mongoStorage, answer,
                                   fileOk, fileSaved, workingProxies)
          /\ loaded' = [mongo |-> IF mongoStorage
                                  THEN Logged(~answer.failed) ELSE "none",
                        answer |-> answer.list,
                        file |-> IF FromStore(mongoStorage, answer)
                                 THEN "none" ELSE Logged(fileOk)]
    /\ cpc' = "run"
    /\ UNCHANGED <<config, testSampleSize, trigger, crawl, err, saveLog,
                   outcome, pending, results, fileSaved, mongoSaved,
                   workerVars, genericVars>>

\* d.testProxies(list, type) is entered
CallTestProxies(list, type) ==
    /\ proxies' = list
    /\ testType' = type
    /\ cpc' = "idle"

\* what d.crawler.CrawlProxies(crawlCtx) can return: the sources deliver
\* some lines, or every source fails and there is no line at all
CrawlReturns ==
    {[called |-> TRUE, list |-> CrawlProxies(in[1]), failed |-> in[2],
      err |-> CrawlProxiesErr(in[1], in[2])] :
        in \in {in \in Texts \X BOOLEAN : in[2] => in[1] = <<>>}}

\* Daemon.crawlAndTestProxies, up to its call of testProxies
crawlAndTestProxies ==
    \E c \in CrawlReturns :
       /\ crawl' = c
       /\ IF c.err # "nil"
          THEN /\ cpc' = "failed" /\ err' = "error"
               /\ UNCHANGED <<proxies, testType>>
          ELSE IF SamplePanics(c.list, testSampleSize)
          THEN /\ cpc' = "sample_panicked" /\ err' = "none"
               /\ UNCHANGED <<proxies, testType>>
          ELSE /\ CallTestProxies(Sample(c.list, testSampleSize), "crawl")
               /\ err' = "none"

\* a start that crawls whatever was loaded
InitialCrawlAlways(pool) == TRUE

\* Run: if len(d.workingProxies) == 0
InitialCrawlNeeded(pool) == Len(pool) = 0

\* Run: the initial crawl, when no working proxy was loaded
RunInitialCrawl ==
    /\ cpc = "run"
    /\ IF InitialCrawlNeeded(workingProxies)
       THEN /\ trigger' = "initial"
            /\ crawlAndTestProxies
       ELSE /\ cpc' = "loop"
            /\ UNCHANGED <<proxies, testType, trigger, crawl, err>>
    /\ results' = <<>>
    /\ saveLog' = NoSave
    /\ loaded' = NoLoad
    /\ UNCHANGED <<variant, maxWorkers, mongoStorage, keepWorkingProxies,
                   testSampleSize, outcome, pending, workerVars, genericVars,
                   daemonVars>>

\* a select that is also reached while testProxies runs
InLoopOrBusy ==
    cpc \in {"loop", "published", "skipped", "failed", "idle", "returned"}

\* Run is in its select, between two cycles
InLoop == cpc \in {"loop", "published", "skipped", "failed"}

\* the select of Run: the case of channel ch can be taken when ch holds a
\* value, or when no channel does and Run waits until ch delivers first
SelectCase(ch) == ch \in pending \/ pending = {}

\* a maintenance cycle that never sources candidates
MaintenanceOnly(pool) == FALSE

\* testExistingProxies: with no working proxy the crawl cycle is run
MaintenanceDelegates(pool) == Len(pool) = 0

\* Run, case <-ticker.C: d.testExistingProxies()
Ticker ==
    /\ InLoop /\ SelectCase("tick")
    /\ trigger' = "ticker"
    /\ IF MaintenanceDelegates(workingProxies)
       THEN crawlAndTestProxies
       ELSE /\ CallTestProxies(workingProxies, "maintenance")
            /\ crawl' = NoCrawl
            /\ err' = "none"
    /\ results' = <<>>
    /\ saveLog' = NoSave
    /\ pending' = pending \ {"tick"}
    /\ UNCHANGED <<variant, maxWorkers, mongoStorage, keepWorkingProxies,
                   testSampleSize, outcome, loaded, workerVars, genericVars,
                   daemonVars>>

\* Run, case <-crawlTicker.C: d.crawlAndTestProxies()
CrawlTicker ==
    /\ InLoop /\ SelectCase("crawlTick")
    /\ trigger' = "crawlTicker"
    /\ crawlAndTestProxies
    /\ results' = <<>>
    /\ saveLog' = NoSave
    /\ pending' = pending \ {"crawlTick"}
    /\ UNCHANGED <<variant, maxWorkers, mongoStorage, keepWorkingProxies,
                   testSampleSize, outcome, loaded, workerVars, genericVars,
                   daemonVars>>

\* a signal that is served wherever Run is
SignalTakenAnywhere == cpc \in {"run", "idle", "returned"} \/ InLoop

\* Run receives from sigChan only in the select of its loop
SignalTaken == InLoop

\* Run, case <-sigChan: d.cancel(); return d.shutdown()
Shutdown ==
    /\ SignalTaken /\ SelectCase("signal")
    /\ ctxDone' = TRUE
    /\ cpc' = "stopped"
    /\ \E fileOk \in BOOLEAN :
          /\ fileSaved' = IF fileOk THEN workingProxies ELSE fileSaved
          /\ saveLog' = [file |-> Logged(fileOk), mongo |-> "none"]
    /\ pending' = pending \ {"signal"}
    /\ UNCHANGED <<config, testSampleSize, outcome, loaded, trigger, crawl,
                   err, results,
                   workingProxies, mongoSaved, pc, res, semaphore, sendq,
                   resultsChan, probeCount, delivered, genericVars>>

\* what the probes of a cycle meet: a failed connection, a fast and a slow
\* 200 response
CycleOutcomes ==
    {Outcome("do", 0, 0, FALSE, 0),
     Outcome("resp", 200, 1, TRUE, 1),
     Outcome("resp", 200, 2, TRUE, 1)}

\* the orders in which k of n workers can deliver
Orders(n, k) ==
    {s \in [1..k -> 1..n] : \A i, j \in 1..k : i # j => s[i] # s[j]}

\* the collections ElevenLabsTester.TestProxies can return for a list: one
\* result per position in the order of delivery, all of them, or those
\* collected when the ten-minute deadline of testCtx passed
TestProxiesReturns(list) ==
    {[i \in 1..Len(ord) |-> TestProxy(list[ord[i]], o[ord[i]])] :
        ord \in UNION {Orders(Len(list), k) : k \in 0..Len(list)},
        o \in [1..Len(list) -> CycleOutcomes]}

\* results := d.tester.TestProxies(testCtx, proxies, Threads), as a whole
Dispatched ==
    /\ IsDaemon /\ cpc = "idle" /\ ~EmptyListReturns(proxies)
    /\ results' \in TestProxiesReturns(proxies)
    /\ cpc' = "returned"
    /\ UNCHANGED <<config, cycleVars, workerVars, genericVars, daemonVars>>

CycleNext ==
    \/ LoadWorkingProxies
    \/ RunInitialCrawl
    \/ Ticker
    \/ CrawlTicker
    \/ Shutdown
    \/ DaemonSkip
    \/ Dispatched
    \/ DaemonReduceV1
    \/ DaemonReduceV2

\* the daemon from NewDaemon on, with each dispatch taken as one step
CycleSpec == CycleInit /\ [][CycleNext]_vars

\* a cycle is under way: testProxies was entered and has not returned
InCycle == cpc \in {"idle", "returned"}

\* the two tickers exist: Run has passed the initial crawl
TickersRunning == InLoop \/ (InCycle /\ trigger # "initial")

\* ticker / crawlTicker fire, one or both at once, while Run is elsewhere;
\* each channel buffers one tick and drops the rest
TickersFire ==
    /\ TickersRunning
    /\ \E fired \in (SUBSET {"tick", "crawlTick"}) \ {{}} :
          /\ ~(fired \subseteq pending)
          /\ pending' = pending \cup fired
    /\ UNCHANGED <<config, testSampleSize, trigger, crawl, err, saveLog,
                   outcome, loaded, results, cpc, workerVars, genericVars,
                   daemonVars>>

\* SIGINT or SIGTERM is delivered to sigChan (signal.Notify, buffer of one)
SignalArrives ==
    /\ cpc = "run" \/ InCycle \/ InLoop
    /\ "signal" \notin pending
    /\ pending' = pending \cup {"signal"}
    /\ UNCHANGED <<config, testSampleSize, trigger, crawl, err, saveLog,
                   outcome, loaded, results, cpc, workerVars, genericVars,
                   daemonVars>>

RunNext ==
    \/ LoadWorkingProxies
    \/ RunInitialCrawl
    \/ Ticker
    \/ CrawlTicker
    \/ Shutdown
    \/ DaemonSkip
    \/ Dispatched
    \/ DaemonReduceV1
    \/ DaemonReduceV2
    \/ TickersFire
    \/ SignalArrives

\* the daemon started without a working-proxies file and configured to
\* test every crawled address
FreshInit ==
    /\ CycleInit
    /\ fileSaved = <<>> /\ testSampleSize = MaxProxies

FreshSpec == FreshInit /\ [][CycleNext]_vars

\* NewDaemon alone: the load of the working set, over every store, answer
\* and file
LoadSpec == CycleInit /\ [][LoadWorkingProxies]_vars

\* the daemon started without a document store, with a working-proxies
\* file of at most one line, to keep as many proxies as it can and to test
\* every crawled address
RunInit ==
    /\ CycleInit
    /\ ~mongoStorage
    /\ Len(fileSaved) <= 1
    /\ keepWorkingProxies = MaxKeep /\ testSampleSize = MaxProxies

\* that daemon with the timers and the signals of its environment
RunSpec == RunInit /\ [][RunNext]_vars

\* the steps Run takes by itself: the start, and a cycle once entered
CycleSteps ==
    \/ LoadWorkingProxies
    \/ RunInitialCrawl
    \/ DaemonSkip
    \/ Dispatched
    \/ DaemonReduceV1
    \/ DaemonReduceV2

\* every cycle goes on to its end (the probes time out), and the random
\* choice of the select does not pass over a waiting signal for ever
RunFairSpec == RunSpec /\ WF_vars(CycleSteps) /\ SF_vars(Shutdown)

\* ------------------------------------------------- the reducer alone
\* a comparison that orders nothing
LessAny(a, b) == TRUE

\* sort.StringSlice.Less, as "not greater": a <= b on the address strings
LessEq(a, b) == a <= b

\* sort.Strings is not a stable sort: it may leave the slice in any
\* arrangement of its elements in which no element precedes a smaller one
SortOutputs(s) ==
    {p \in {[i \in 1..Len(s) |-> s[ord[i]]] : ord \in Orders(Len(s), Len(s))} :
        \A i, j \in 1..Len(s) : i < j => LessEq(p[i], p[j])}

\* daemon.go:596-604: GetWorkingProxies, sort.Strings, cut to the capacity
ReduceOutputs(rs, keep) ==
    {IF Len(p) > keep THEN Truncate(p, keep) ELSE p :
        p \in SortOutputs(GetWorkingProxies(rs))}

\* the address lists of at most MaxProxies entries
AddressLists ==
    {t \in Texts : \A i \in 1..Len(t) : validateProxy(t[i])}

\* TestProxies has returned some collection to the second testProxies
ReduceInit ==
    /\ variant = "daemon_v2"
    /\ proxies \in AddressLists
    /\ results \in TestProxiesReturns(proxies)
    /\ keepWorkingProxies \in 0..MaxKeep
    /\ maxWorkers = MaxWorkers
    /\ testType = "crawl"
    /\ mongoStorage = FALSE
    /\ workingProxies = <<>>
    /\ fileSaved = <<>>
    /\ mongoSaved = <<>>
    /\ ctxDone = FALSE
    /\ pc = [w \in Workers |-> "none"]
    /\ res = [w \in Workers |-> NoResult]
    /\ semaphore = 0
    /\ sendq = <<>>
    /\ resultsChan = <<>>
    /\ chanClosed = FALSE
    /\ wg = 0
    /\ closerPc = "none"
    /\ cpc = "returned"
    /\ ptWorking = <<>>
    /\ totalTested = 0
    /\ probeCount = [w \in Workers |-> 0]
    /\ delivered = [w \in Workers |-> "no"]
    /\ testSampleSize = MaxProxies
    /\ trigger = "none"
    /\ crawl = NoCrawl
    /\ err = "none"
    /\ saveLog = NoSave
    /\ outcome = NoOutcome
    /\ pending = {}
    /\ loaded = NoLoad

\* the reducer lines are run on the collection, a first and a second time
Reduce ==
    /\ cpc \in {"returned", "reduced"}
    /\ workingProxies' \in ReduceOutputs(results, keepWorkingProxies)
    /\ cpc' = IF cpc = "returned" THEN "reduced" ELSE "reduced_again"
    /\ UNCHANGED <<config, cycleVars, workerVars, genericVars, results,
                   fileSaved, mongoSaved>>

ReduceSpec == ReduceInit /\ [][Reduce]_vars

\* ------------------------------------------------------ a single probe
\* status codes a proxy or the API answers with
Statuses == {199, 200, 201, 299, 300, 404}

\* everything the network can do to one probe; time passes on every path
ProbeOutcomes ==
    {Outcome(k, 0, t, FALSE, 0) : k \in {"parse", "newreq", "do"},
                                  t \in 1..MaxElapsed}
    \cup {Outcome("resp", st, t, ok, n) : st \in Statuses,
                                          t \in 1..MaxElapsed,
                                          ok \in BOOLEAN, n \in 0..1}

\* one call of TestProxy (daemon) or testProxy (generic tester) is under
\* way for the only address of the list
ProbeInit ==
    /\ variant \in {"daemon_v1", "daemon_v2", "generic"}
    /\ \E a \in 1..MaxProxies : proxies = <<a>>
    /\ maxWorkers = MaxWorkers
    /\ testType = "crawl"
    /\ mongoStorage = FALSE
    /\ keepWorkingProxies = 0
    /\ workingProxies = <<>>
    /\ fileSaved = <<>>
    /\ mongoSaved = <<>>
    /\ ctxDone = FALSE
    /\ pc = [w \in Workers |-> IF w = 1 THEN "probe" ELSE "none"]
    /\ res = [w \in Workers |-> NoResult]
    /\ semaphore = 1
    /\ sendq = <<>>
    /\ resultsChan = <<>>
    /\ chanClosed = FALSE
    /\ wg = IF variant = "generic" THEN 1 ELSE 0
    /\ closerPc = IF variant = "generic" THEN "wait" ELSE "none"
    /\ cpc = "collect"
    /\ results = <<>>
    /\ ptWorking = <<>>
    /\ totalTested = 0
    /\ probeCount = [w \in Workers |-> IF w = 1 THEN 1 ELSE 0]
    /\ delivered = [w \in Workers |-> "no"]
    /\ testSampleSize = MaxProxies
    /\ trigger = "none"
    /\ crawl = NoCrawl
    /\ err = "none"
    /\ saveLog = NoSave
    /\ outcome = NoOutcome
    /\ pending = {}
    /\ loaded = NoLoad

\* the call returns its result
ProbeReturn ==
    /\ pc[1] = "probe" /\ outcome = NoOutcome
    /\ \E o \in ProbeOutcomes :
          /\ outcome' = o
          /\ res' = [res EXCEPT ![1] = ProbeResult(proxies[1], o)]
          /\ pc' = [pc EXCEPT
                      ![1] = NextAfterProbe(ProbeResult(proxies[1], o))]
    /\ UNCHANGED <<config, testSampleSize, trigger, crawl, err, saveLog,
                   pending, loaded, ctxDone, semaphore, sendq, resultsChan,
                   cpc, results, probeCount, delivered, genericVars,
                   daemonVars>>

ProbeSpec == ProbeInit /\ [][ProbeReturn]_vars

\* --------------------------------------------------------------- Next
Worker(w) ==
    \/ WorkerAcquire(w)
    \/ WorkerAbandon(w)
    \/ WorkerPark(w)
    \/ ProbeFinish(w)
    \/ WorkerSend(w)
    \/ WorkerRelease(w)
    \/ WorkerWgDone(w)

Progress ==
    \/ DaemonSkip
    \/ ElevenTestProxies
    \/ PtTestProxies
    \/ \E w \in Workers : Worker(w)
    \/ CollectLoopExit
    \/ CollectRecv
    \/ CollectCancel
    \/ CollectPark
    \/ CloserWait
    \/ CloserClose
    \/ PtCollect
    \/ PtCollectEnd
    \/ DaemonReduceV1
    \/ DaemonReduceV2

Next == Progress \/ Cancel

Spec == Init /\ [][Next]_vars

\* every goroutine that can run is eventually scheduled and every probe
\* ends (client timeout); nothing obliges the context to be cancelled
FairSpec == Spec /\ WF_vars(Progress)

\* the cycles whose daemon configuration is the plainest: the dispatcher
\* reads none of testType, mongoStorage, keepWorkingProxies
DispatchInit ==
    /\ Init
    /\ testType = "crawl" /\ ~mongoStorage /\ keepWorkingProxies = 0

DispatchFairSpec == DispatchInit /\ [][Next]_vars /\ WF_vars(Progress)

TypeOK ==
    /\ semaphore \in 0..MaxWorkers
    /\ cpc \in {"idle", "skipped", "collect", "parked", "woken_recv",
                "woken_done", "returned", "published", "panicked",
                "new", "run", "loop", "failed", "stopped",
                "sample_panicked", "reduced", "reduced_again"}
    /\ \A w \in Workers :
          pc[w] \in {"none", "start", "parked", "abandon", "probe",
                     "probe_late", "send", "release", "wgdone", "done"}


\* ============================================================ properties
N == Len(proxies)

Started == {w \in Workers : w <= N}

\* the worker holds an admission slot
Holding(w) == pc[w] \in {"probe", "probe_late", "send", "release"}

InFlight == Cardinality({w \in Workers : Holding(w)})

\* the call of the dispatcher has returned to its caller
ElevenReturned == IsDaemon /\ cpc \in {"returned", "published", "panicked"}

PtReturned == variant = "generic" /\ cpc = "returned"

Returned == ElevenReturned \/ PtReturned \/ cpc = "skipped"

\* number of entries of the address sequence s that equal a
Count(s, a) == Cardinality({i \in 1..Len(s) : s[i] = a})

\* C1: in every reachable state of a dispatch, of either tester, the number
\* of workers that have acquired an admission slot and not yet released it
\* is at most maxWorkers
C1_AdmissionBound == InFlight <= maxWorkers

\* the gate is full and another worker waits for a slot
C1_Witness ==
    /\ maxWorkers >= 1 /\ InFlight = maxWorkers
    /\ \E w \in Workers : pc[w] = "parked"

\* C2: neither tester ever holds more results than addresses, and
\* ElevenLabsTester.TestProxies returns exactly len(proxies) results when
\* it returns with the context not done
C2_ResultCount ==
    /\ Len(results) <= N
    /\ Len(ptWorking) <= N /\ totalTested <= N
    /\ (ElevenReturned /\ ~ctxDone) => Len(results) = N

\* a full-length list was dispatched and collected without cancellation
C2_Witness ==
    /\ IsDaemon /\ cpc = "returned" /\ ~ctxDone
    /\ N = MaxProxies /\ Len(results) = N

\* C3: every address is probed at most once and has at most one result in
\* the collection; when the dispatcher returns with the context not done
\* every address was probed exactly once and its result was collected
\* exactly once (generic tester: counted once, and listed once iff working)
C3_ExactlyOnce ==
    /\ \A w \in Workers : probeCount[w] <= 1
    /\ \A w \in Started :
          /\ Count(Addrs(results), proxies[w]) <= 1
          /\ Count(ptWorking, proxies[w]) <= 1
    /\ (ElevenReturned /\ ~ctxDone) =>
          \A w \in Started :
             /\ probeCount[w] = 1
             /\ Count(Addrs(results), proxies[w]) = 1
             /\ \E i \in 1..Len(results) : results[i] = res[w]
    /\ (PtReturned /\ ~ctxDone) =>
          /\ totalTested = N
          /\ \A w \in Started :
                /\ probeCount[w] = 1
                /\ Count(ptWorking, proxies[w])
                      = IF res[w].IsWorking THEN 1 ELSE 0

\* both testers in turn: here the generic one returned all its addresses
\* as working, with more addresses than slots
C3_Witness ==
    /\ PtReturned /\ ~ctxDone
    /\ N = MaxProxies /\ maxWorkers < N
    /\ Len(ptWorking) = N

\* C4 (as stated): once the context is done, a worker that holds no slot
\* never acquires one
C4_NoAdmissionAfterCancel ==
    [][\A w \in Workers :
          (ctxDone /\ pc[w] \in {"start", "parked", "abandon"})
             => ~Holding(w)']_vars

\* C5 (as stated): when the dispatcher has returned, every result that
\* was sent to the result channel before the context was done is in the
\* returned collection
C5_DeliveredKept ==
    ElevenReturned =>
       \A w \in Started :
          delivered[w] = "before" => proxies[w] \in Range(Addrs(results))

\* C5 (amended): a result the collector has received from the channel and
\* appended stays in the collection, through the return on cancellation
\* and up to the reducer
C5_CollectedKept ==
    [][\A i \in 1..Len(results) :
          Len(results') >= i /\ results'[i] = results[i]]_vars

\* the dispatcher returned on cancellation with part of the results, while
\* a delivered result was still in the channel
C5_Witness ==
    /\ IsDaemon /\ cpc = "returned" /\ ctxDone
    /\ Len(results) >= 1 /\ resultsChan # <<>>

\* the worker's goroutine has ended (or the process has)
Terminated(w) == pc[w] = "done" \/ ~Alive

\* C6: a worker parked on the admission select when the context is
\* cancelled is resumed on the ctx.Done() case, from there only returns,
\* never calls the probe, never sends a result, and eventually terminates
C6_BlockedWorkerAbandons ==
    /\ [][\A w \in Workers :
            (pc[w] = "parked" /\ ~ctxDone /\ ctxDone')
               => pc'[w] = "abandon"]_vars
    /\ [][\A w \in Workers :
            (pc[w] = "abandon" \/ (pc[w] = "done" /\ probeCount[w] = 0))
               => /\ pc'[w] \in {"abandon", "done"}
                  /\ probeCount'[w] = 0
                  /\ delivered'[w] = "no"]_vars
    /\ \A w \in Workers : (pc[w] = "abandon") ~> Terminated(w)

\* a worker was parked when the cancellation came
C6_Witness == \E w \in Workers : pc[w] = "abandon" /\ probeCount[w] = 0

\* C7: when ElevenLabsTester.TestProxies has returned with the context not
\* done, every worker has sent its result and every result has been
\* collected; the generic tester closes its channel only after every
\* worker has ended, and returns only when the closed channel is drained
C7_FullFanIn ==
    /\ (ElevenReturned /\ ~ctxDone) =>
          /\ \A w \in Started :
                pc[w] \in {"release", "done"} /\ delivered[w] = "before"
          /\ resultsChan = <<>>
          /\ Len(results) = N
    /\ (variant = "generic" /\ chanClosed) =>
          \A w \in Started : pc[w] = "done"
    /\ PtReturned =>
          /\ chanClosed /\ resultsChan = <<>>
          /\ totalTested = Cardinality({w \in Started : probeCount[w] = 1})

\* the generic tester returned without cancellation after probing all
C7_Witness ==
    /\ PtReturned /\ ~ctxDone
    /\ N = MaxProxies /\ totalTested = N

\* C8: with maxWorkers >= 1 every call returns, and once the context is
\* done the call returns whatever the limit
C8_Returns ==
    /\ (maxWorkers >= 1) => <>Returned
    /\ ctxDone ~> Returned

\* a call with more addresses than slots has returned without cancellation
C8_Witness ==
    /\ cpc = "returned" /\ ~ctxDone
    /\ maxWorkers >= 1 /\ N > maxWorkers

Failed(r) == ~r.IsWorking

\* C9: the step in which a probe returns, failed or not, only moves its own
\* worker on to send the result for its address (a failed one with
\* IsWorking false) and leaves every other worker and the caller where
\* they are; a dispatch that returns with the context not done has
\* collected a result for every address, the failed ones included
C9_FailureIsolated ==
    /\ [][\A w \in Workers :
            (pc[w] \in {"probe", "probe_late"} /\ pc'[w] # pc[w])
               => /\ pc'[w] = "send"
                  /\ res'[w].Proxy = proxies[w]
                  /\ res'[w].Error # "nil" => Failed(res'[w])
                  /\ \A v \in Workers \ {w} : pc'[v] = pc[v]
                  /\ cpc' = cpc
                  /\ Alive']_vars
    /\ [](\A w \in Started :
            (pc[w] \in {"send", "release", "wgdone", "done"}
                /\ probeCount[w] = 1 /\ Failed(res[w]))
               => delivered[w] # "no" \/ pc[w] = "send")
    /\ []((ElevenReturned /\ ~ctxDone) =>
            \A w \in Started : \E i \in 1..N : results[i] = res[w])

\* a dispatch returned without cancellation with one failed and one
\* working result
C9_Witness ==
    /\ IsDaemon /\ cpc = "returned" /\ ~ctxDone
    /\ \E i, j \in 1..Len(results) :
          Failed(results[i]) /\ results[j].IsWorking

\* C10 (as stated): no cycle panics inside Daemon.testProxies
C10_NeverPanics == cpc # "panicked"

\* ------------------------------------------------ the cycle controller
\* C11 (as stated): the working set a cycle publishes is its working
\* results ordered by ascending latency, cut to KeepWorkingProxies entries
C11_SortedByLatency ==
    cpc = "published" =>
       LET W == FilterWorking(results)
           n == IF Len(W) < keepWorkingProxies THEN Len(W)
                ELSE keepWorkingProxies
       IN \E ord \in Orders(Len(W), Len(W)) :
             LET byLatency == [i \in 1..Len(W) |-> W[ord[i]]]
             IN /\ \A i, j \in 1..Len(W) :
                      i < j => byLatency[i].Latency <= byLatency[j].Latency
                /\ workingProxies = Addrs(SubSeq(byLatency, 1, n))

\* C12 (as stated): the reducer step of a cycle, once it has run on the
\* results, leaves as working set only addresses of working results,
\* exactly min(KeepWorkingProxies, number of working results) of them: the
\* first ones of the ordered list
C12_FilterAndCut ==
    cpc \in {"published", "panicked"} =>
       LET W == GetWorkingProxies(results)
           n == IF Len(W) < keepWorkingProxies THEN Len(W)
                ELSE keepWorkingProxies
       IN /\ Len(workingProxies) = n
          /\ \A i \in 1..Len(workingProxies) :
                \E j \in 1..Len(results) :
                   /\ results[j].Proxy = workingProxies[i]
                   /\ results[j].IsWorking
          /\ workingProxies = SubSeq(SortStrings(W), 1, n)

\* C13 (as stated): from the return of NewDaemon on, in every state of the
\* daemon, d.workingProxies has at most KeepWorkingProxies entries
C13_PoolBounded ==
    cpc # "new" => Len(workingProxies) <= keepWorkingProxies

\* C14 (as stated): the list handed to TestProxies in a cycle, crawl or
\* maintenance, holds each address at most once, and so does the working
\* set in every state
C14_NoDuplicates ==
    LET NoDup(s) == \A i, j \in 1..Len(s) : i # j => s[i] # s[j]
    IN /\ cpc \in {"idle", "returned"} => NoDup(proxies)
       /\ NoDup(workingProxies)

\* C15 (as stated): when a cycle has ended, also one with an empty
\* candidate list or with failed probes only, the working set is the
\* reducer output for the results of that cycle
C15_PoolReplaced ==
    (trigger # "none" /\ cpc \in {"published", "skipped", "panicked"}) =>
       workingProxies = Kept(results, keepWorkingProxies)

\* C16 (as stated): a crawl cycle tests the first min(S, len) candidates
\* of the crawled list when the sample size S is positive and all of them
\* when S <= 0
C16_SampleTested ==
    (crawl.called /\ cpc # "failed") =>
       /\ cpc # "sample_panicked"
       /\ testType = "crawl"
       /\ proxies = IF testSampleSize > 0 /\ testSampleSize < Len(crawl.list)
                    THEN SubSeq(crawl.list, 1, testSampleSize)
                    ELSE crawl.list

\* C17: a cycle started by the ticker while the working set is empty takes
\* the step of a crawl cycle (CrawlProxies is called and the sample of its
\* list is handed to testProxies) and never ends as an empty cycle without
\* having sourced candidates; started with a non-empty working set it hands
\* exactly the working set to testProxies and does not crawl
C17_MaintenanceOrCrawl ==
    /\ [][(InLoop /\ trigger' = "ticker" /\ cpc' # "stopped") =>
            IF Len(workingProxies) = 0
            THEN /\ crawlAndTestProxies
                 /\ crawl'.called
                 /\ cpc' = "idle" =>
                       /\ testType' = "crawl"
                       /\ proxies' = Sample(crawl'.list, testSampleSize)
            ELSE /\ ~crawl'.called
                 /\ cpc' = "idle"
                 /\ testType' = "maintenance"
                 /\ proxies' = workingProxies]_vars
    /\ []((trigger = "ticker" /\ cpc = "skipped") => crawl.called)
    /\ []((trigger = "ticker" /\ testType = "maintenance")
             => (~crawl.called /\ proxies # <<>>))

\* a ticker cycle that found the working set empty has crawled, tested the
\* crawled addresses and published a working proxy
C17_Witness ==
    /\ trigger = "ticker" /\ crawl.called /\ testType = "crawl"
    /\ cpc = "published" /\ workingProxies # <<>>

\* C18: a cycle that has tested a non-empty list and whose probes all failed
\* ends published with a nil error and an empty working set, the file write
\* was invoked with that empty set (and the file is empty when the write
\* succeeded), and no record of a working proxy went to the document store
C18_AllFailedPublishesEmpty ==
    (cpc \in {"published", "panicked"} /\ proxies # <<>>
        /\ \A i \in 1..Len(results) : ~results[i].IsWorking) =>
       /\ cpc = "published"
       /\ err = "nil"
       /\ workingProxies = <<>>
       /\ saveLog.file # "none"
       /\ saveLog.file = "ok" => fileSaved = <<>>
       /\ saveLog.mongo # "none" =>
             \A i \in 1..Len(mongoSaved) : ~mongoSaved[i].IsWorking

\* both addresses of a maintenance cycle failed: the pool was drained and
\* the empty set written to the file
C18_Witness ==
    /\ cpc = "published" /\ testType = "maintenance"
    /\ Len(results) = MaxProxies
    /\ \A i \in 1..Len(results) : ~results[i].IsWorking
    /\ workingProxies = <<>> /\ saveLog.file = "ok" /\ fileSaved = <<>>

\* C19: a cycle in which the file write or the document-store write failed
\* is still published, returns the nil error, and the working set is the
\* newly reduced one
C19_SaveFailureNotFatal ==
    (trigger # "none" /\ "failed" \in {saveLog.file, saveLog.mongo}) =>
       /\ cpc \in {"published", "stopped"}
       /\ cpc = "published" =>
             /\ err = "nil"
             /\ workingProxies = Kept(results, keepWorkingProxies)

\* both writes of a cycle failed: the file still holds the previous working
\* set, the memory holds the new one
C19_Witness ==
    /\ cpc = "published"
    /\ saveLog.file = "failed" /\ saveLog.mongo = "failed"
    /\ workingProxies # <<>> /\ fileSaved # <<>>
    /\ fileSaved # workingProxies

\* C20 (as stated): a crawl cycle in which every source failed, so that no
\* candidate was obtained, ends with an error returned to Run
C20_FetchFailureSurfaces ==
    (crawl.called /\ crawl.failed
        /\ cpc \in {"skipped", "published", "failed"}) =>
       (cpc = "failed" /\ err = "error")

\* ------------------------------------------------------ a single probe
\* C21 (as stated): TestProxy reports IsWorking exactly when a response
\* arrived through the proxy with a status in 200..299
C21_WorkingIffResponse2xx ==
    (IsDaemon /\ outcome # NoOutcome) =>
       (res[1].IsWorking <=>
           /\ outcome.kind = "resp"
           /\ outcome.status >= 200 /\ outcome.status <= 299)

\* C21 (amended): TestProxy reports IsWorking exactly when a response
\* arrived with a status in 200..299 and its body was read to the end; a
\* failed body read, any other status, and every error before the response
\* give IsWorking = FALSE
C21_WorkingIffRead2xx ==
    (IsDaemon /\ outcome # NoOutcome) =>
       (res[1].IsWorking <=>
           /\ outcome.kind = "resp"
           /\ outcome.readOk
           /\ outcome.status >= 200 /\ outcome.status <= 299)

\* a 299 response whose body was read is reported as working
C21_Witness ==
    /\ IsDaemon /\ outcome.kind = "resp" /\ outcome.readOk
    /\ outcome.status = 299 /\ res[1].IsWorking

\* C22: the result of a probe, of either tester and on every exit path,
\* has an Error exactly when IsWorking is false
C22_ErrorIffNotWorking ==
    outcome # NoOutcome => (res[1].Error # "nil" <=> ~res[1].IsWorking)

\* the generic tester refused a 201 response and gave the reason
C22_Witness ==
    /\ variant = "generic" /\ outcome.kind = "resp" /\ outcome.status = 201
    /\ ~res[1].IsWorking /\ res[1].Error = "HTTP"

\* C23 (as stated): the result of a probe, failed or not, carries the time
\* the probe took as its Latency
C23_LatencyAlwaysSet ==
    outcome # NoOutcome =>
       (res[1].Latency = outcome.elapsed /\ res[1].Latency > 0)

\* ------------------------------------------------- the reducer alone
\* a run of the reducer lines gives the set the cycle publishes and leaves
\* the collection, the candidates and the stores as they were
ReduceStepPure ==
    cpc \in {"returned", "reduced"} =>
        /\ workingProxies' = Kept(results, keepWorkingProxies)
        /\ results' = results
        /\ proxies' = proxies
        /\ fileSaved' = fileSaved
        /\ mongoSaved' = mongoSaved

\* the second run of the reducer lines gives what the first run gave
ReduceStepSame ==
    cpc = "reduced" => workingProxies' = workingProxies

\* C24: the reducer lines of the second testProxies, run twice on the same
\* collection and capacity, give the same working set both times, the one
\* the cycle publishes, and leave the collection and every other variable
\* as they were
C24_ReduceIdempotentPure ==
    [][ReduceStepSame /\ ReduceStepPure]_vars

\* the reducer ran twice on a collection with two working results for the
\* same address and more working results than the capacity
C24_Witness ==
    /\ cpc = "reduced_again"
    /\ Len(results) = MaxProxies
    /\ \A i \in 1..Len(results) : results[i].IsWorking /\ results[i].Proxy = 1
    /\ results[1].Latency # results[2].Latency
    /\ keepWorkingProxies = MaxKeep /\ Len(workingProxies) = MaxKeep

\* ------------------------------------------------- the loop of Run
\* the step starts no cycle: no branch of Run is taken, no crawl is made
\* and testProxies is not entered
NoCycleStart ==
    /\ trigger' = trigger /\ crawl' = crawl
    /\ proxies' = proxies /\ testType' = testType
    /\ cpc' = "idle" => cpc = "idle"

\* C25: while a cycle of Daemon.Run is under way no other cycle starts,
\* whatever ticks fire meanwhile, singly or together
C25_OneCycleAtATime == [][InCycle => NoCycleStart]_vars

\* both tickers have fired while the results of a cycle await the reducer
C25_Witness ==
    /\ cpc = "returned" /\ trigger = "ticker"
    /\ {"tick", "crawlTick"} \subseteq pending

\* -------------------------------------------- writers of the working set
\* C26: the working set changes only in a step of the controller taken
\* after the dispatch call returned; no step of a probe worker changes the
\* working set or the collected results, and once the dispatch call has
\* returned, early on cancellation or not, the results no longer change
C26_SingleWriter ==
    [][/\ workingProxies' # workingProxies =>
             (IsDaemon /\ cpc = "returned" /\ pc' = pc)
       /\ pc' # pc =>
             (results' = results /\ workingProxies' = workingProxies)
       /\ ElevenReturned => results' = results]_vars

\* the dispatch call returned early on cancellation, the controller has
\* published a working proxy and a probe worker is still running
C26_Witness ==
    /\ cpc = "published" /\ ctxDone /\ workingProxies # <<>>
    /\ Len(results) < Len(proxies)
    /\ \E w \in Workers : pc[w] \in {"probe", "probe_late", "send"}

\* ------------------------------------------------ what a cycle keeps
\* every kept address was a candidate of the cycle and a probe of the cycle
\* found it working
KeptWereTested ==
    \A i \in 1..Len(workingProxies) :
       /\ workingProxies[i] \in Range(proxies)
       /\ \E j \in 1..Len(results) :
             /\ results[j].Proxy = workingProxies[i]
             /\ results[j].IsWorking

\* a maintenance cycle that publishes leaves a subset of the previous set
MaintenanceShrinks ==
    (cpc' = "published" /\ cpc # "published" /\ testType = "maintenance")
       => Range(workingProxies') \subseteq Range(workingProxies)

\* C27 (as stated): after every cycle that ran to its end each address of
\* the working set was a candidate of that cycle whose probe in that cycle
\* returned IsWorking, and a maintenance cycle leaves a subset of the
\* previous working set
C27_OnlyTestedKept ==
    /\ [](trigger # "none" /\ cpc \in {"published", "skipped"}
             => KeptWereTested)
    /\ [][MaintenanceShrinks]_vars

\* ------------------------------------------------- the start of Run
\* Run leaves its start: with an empty working set through a crawl cycle,
\* otherwise straight into the timer loop
StartOfRun ==
    (cpc = "run" /\ cpc' # "run") =>
       IF Len(workingProxies) = 0
       THEN trigger' = "initial" /\ crawl'.called /\ cpc' # "loop"
       ELSE trigger' = "none" /\ ~crawl'.called /\ cpc' = "loop"

\* C28: Run makes the initial crawl cycle before its timer loop exactly
\* when the working set loaded by NewDaemon is empty
C28_InitialCrawlIffEmpty == [][StartOfRun]_vars

\* the file held no valid line, the initial crawl cycle ran and published
C28_Witness ==
    /\ trigger = "initial" /\ cpc = "published" /\ crawl.called
    /\ fileSaved # <<>> /\ workingProxies # <<>>

\* --------------------------------------------------- the end of Run
\* while a cycle is under way, whatever signal arrives or waits, Run does
\* not return and the context stays open; the arrival changes nothing of
\* the cycle
CycleNotInterrupted ==
    InCycle =>
       /\ cpc' \in {"idle", "skipped", "returned", "published", "panicked"}
       /\ ~ctxDone'
       /\ pending' # pending =>
             <<proxies, results, workingProxies, fileSaved, cpc>>'
                = <<proxies, results, workingProxies, fileSaved, cpc>>

\* Run has returned: shutdown called saveWorkingProxies, and the file holds
\* the working set unless the write was refused
SavedBeforeReturn ==
    cpc = "stopped" =>
       /\ saveLog.file # "none"
       /\ saveLog.file = "ok" => fileSaved = workingProxies

\* C29: a signal delivered during a cycle does not interrupt the cycle, and
\* Run returns only after shutdown has written the working set to the
\* working-proxies file
C29_GracefulShutdown ==
    /\ [][CycleNotInterrupted]_vars
    /\ []SavedBeforeReturn

\* Run returned after a cycle that published a working proxy, and the file
\* holds that working set
C29_Witness ==
    /\ cpc = "stopped" /\ ctxDone /\ saveLog.file = "ok"
    /\ results # <<>> /\ workingProxies # <<>>
    /\ fileSaved = workingProxies

\* ------------------------------------------ the document store's share
\* the addresses the cycle handed to SaveWorkingProxies as working
HandedAsWorking ==
    IF saveLog.mongo = "none" THEN {}
    ELSE {mongoSaved[i].Address :
             i \in {j \in 1..Len(mongoSaved) : mongoSaved[j].IsWorking}}

\* C30 (as stated): in a cycle that published with the document store
\* enabled, the addresses handed to the store as working are exactly the
\* addresses of the published working set, also when more proxies work
\* than KeepWorkingProxies
C30_StoreMatchesPublished ==
    (trigger # "none" /\ cpc = "published" /\ mongoStorage) =>
       HandedAsWorking = Range(workingProxies)

\* ------------------------------------------- the order of completion
\* the result of each address, taken in the order of the candidate list
InputOrderResults == [i \in 1..Len(proxies) |-> res[i]]

\* C31: when no cancellation occurred, the working set a cycle publishes is
\* the reducer output for the per-address results taken in the order of the
\* candidate list, whatever the order in which the probes completed
C31_OrderIndependent ==
    (IsDaemon /\ cpc = "published" /\ ~ctxDone) =>
       workingProxies = Kept(InputOrderResults, keepWorkingProxies)

\* both probes succeeded, the second address was delivered first, and the
\* cut to the capacity kept the first address
C31_Witness ==
    /\ IsDaemon /\ cpc = "published" /\ ~ctxDone
    /\ Len(results) = MaxProxies
    /\ \A i \in 1..Len(results) : results[i].IsWorking
    /\ results[1].Proxy = proxies[2]
    /\ keepWorkingProxies = 1 /\ workingProxies = <<proxies[1]>>

\* ------------------------------------------- the end of every worker
\* every worker of the call has ended and no admission slot is held
WorkersGone ==
    /\ \A w \in Started : Terminated(w)
    /\ Alive => (semaphore = 0 /\ InFlight = 0)

\* C32: a worker of ElevenLabsTester.TestProxies that has its result never
\* waits for room in the result channel and ends; once the context is done
\* every worker ends and every slot is given back, also when the call has
\* already returned; and so it is without cancellation when the limit
\* admits at all
C32_WorkersTerminate ==
    /\ [](IsDaemon => Len(resultsChan) <= ResultCap(Len(proxies)))
    /\ [](IsDaemon =>
            \A w \in Workers :
               pc[w] = "send" => Len(resultsChan) < ResultCap(Len(proxies)))
    /\ (IsDaemon /\ ctxDone) ~> WorkersGone
    /\ (IsDaemon /\ maxWorkers >= 1) ~> WorkersGone

\* the call returned on cancellation while a worker was still probing, and
\* that worker has ended since and given its slot back
C32_Witness ==
    /\ IsDaemon /\ ctxDone /\ cpc \in {"returned", "published"}
    /\ Len(results) < N /\ WorkersGone
    /\ \E w \in Started : delivered[w] = "after"

\* ------------------------------------------------ signal against tick
\* C33 (as stated): once a signal waits in sigChan, the select of Run takes
\* the signal branch: no step of the loop starts a maintenance or crawl
\* cycle, whatever tick is pending
C33_SignalBeforeTicks ==
    [][(InLoop /\ "signal" \in pending) => NoCycleStart]_vars

\* C34 (as stated): when a signal has been delivered, Run eventually
\* returns, its context cancelled and the save of the working set called
C34_ShutdownCompletes ==
    ("signal" \in pending) ~>
       (cpc = "stopped" /\ ctxDone /\ saveLog.file # "none")

\* ------------------------------------------------ a limit of zero
\* C35: with a concurrency limit of 0 no worker is admitted and no probe is
\* made; ElevenLabsTester.TestProxies returns only with the context done
\* and with no result, and ProxyTester.TestProxies, given a non-empty list,
\* returns only with the context done, so never under a context that is
\* never cancelled
C35_ZeroLimit ==
    maxWorkers = 0 =>
       /\ \A w \in Workers : probeCount[w] = 0 /\ ~Holding(w)
       /\ semaphore = 0 /\ resultsChan = <<>>
       /\ ElevenReturned => (ctxDone /\ results = <<>>)
       /\ (PtReturned /\ N > 0) =>
             (ctxDone /\ ptWorking = <<>> /\ totalTested = 0)

\* with the limit 0 the call over a full list returned on cancellation,
\* empty-handed, every worker having given up in the admission select
C35_Witness ==
    /\ maxWorkers = 0 /\ N = MaxProxies
    /\ IsDaemon /\ cpc = "returned" /\ ctxDone /\ results = <<>>
    /\ \A w \in Started : pc[w] = "done"

\* ------------------------------------------- the close of the channel
\* close(results) is a step of the closer goroutine, taken once, and after
\* it nothing is sent on the channel
ClosedOnce ==
    /\ chanClosed' # chanClosed =>
          (~chanClosed /\ closerPc = "close" /\ closerPc' = "done")
    /\ closerPc = "done" => (closerPc' = "done" /\ chanClosed')
    /\ chanClosed => Len(resultsChan') <= Len(resultsChan)

\* C36: in ProxyTester.TestProxies the result channel is closed once, by
\* the closer and only when every worker has ended, nothing is sent on it
\* afterwards, with or without cancellation, and the range loop ends only
\* after that
C36_CloseAfterWorkers ==
    /\ [][variant = "generic" => ClosedOnce]_vars
    /\ []((variant = "generic" /\ closerPc \in {"close", "done"}) =>
             (wg = 0 /\ \A w \in Started : pc[w] = "done"))
    /\ [](PtReturned => (chanClosed /\ closerPc = "done"))

\* the channel was closed after a cancellation: one worker had given up in
\* the admission select, another had delivered its result
C36_Witness ==
    /\ variant = "generic" /\ chanClosed /\ ctxDone /\ N = MaxProxies
    /\ \E w \in Started : probeCount[w] = 0
    /\ \E w \in Started : delivered[w] # "no"

\* ------------------------------------------------ the empty cycle
\* testProxies entered with no address returns nil in its next step and
\* touches neither the working set nor the file nor the document store
EmptyCycleStep ==
    (IsDaemon /\ cpc = "idle" /\ proxies = <<>>) =>
       /\ cpc' = "skipped" /\ err' = "nil"
       /\ workingProxies' = workingProxies
       /\ fileSaved' = fileSaved
       /\ mongoSaved' = mongoSaved
       /\ saveLog' = NoSave /\ results' = <<>>

\* C37: a cycle entered with an empty candidate list returns nil at once,
\* no probe dispatched and no save called, and leaves the working set, the
\* working-proxies file and the document store as they were
C37_EmptyCycleFrame == [][EmptyCycleStep]_vars

\* a crawl that found nothing ended while a working set was held, on file
\* and in the document store
C37_Witness ==
    /\ cpc = "skipped" /\ crawl.called /\ crawl.list = <<>>
    /\ err = "nil" /\ saveLog = NoSave
    /\ workingProxies # <<>> /\ fileSaved # <<>> /\ mongoSaved # <<>>

\* ------------------------------------------------ the load at startup
\* the store was there, answered without error and with an address
StoreAnswered == mongoStorage /\ loaded.mongo = "ok" /\ loaded.answer # <<>>

\* C38: NewDaemon always gets past the load; the working set is the answer
\* of the document store when the store is enabled and connected, answers
\* without error and with at least one address, and then the file is not
\* read; in every other case the file is read, and the working set is its
\* valid lines, or empty when the file cannot be read
C38_LoadSource ==
    cpc = "run" =>
       /\ ~mongoStorage => loaded.mongo = "none"
       /\ StoreAnswered =>
             (workingProxies = loaded.answer /\ loaded.file = "none")
       /\ ~StoreAnswered =>
             /\ loaded.file \in {"ok", "failed"}
             /\ loaded.file = "ok" =>
                   workingProxies = SelectSeq(fileSaved, validateProxy)
             /\ loaded.file = "failed" => workingProxies = <<>>

\* the store answered with no address and the working set came from a file
\* with a valid line
C38_Witness ==
    /\ cpc = "run" /\ mongoStorage
    /\ loaded.mongo = "ok" /\ loaded.answer = <<>>
    /\ loaded.file = "ok" /\ workingProxies # <<>>

\* ------------------------------------------------ the generic probe
\* C39: ProxyTester.testProxy reports IsWorking exactly when a response
\* arrived with status 200; a response with any other status, another 2xx
\* included, gives IsWorking false and an HTTP error
C39_GenericOnly200 ==
    (variant = "generic" /\ outcome # NoOutcome) =>
       /\ res[1].IsWorking <=>
             (outcome.kind = "resp" /\ outcome.status = 200)
       /\ (outcome.kind = "resp" /\ outcome.status # 200) =>
             (~res[1].IsWorking /\ res[1].Error = "HTTP")

\* the generic probe met a 299 response and refused it with an HTTP error
C39_Witness ==
    /\ variant = "generic" /\ outcome.kind = "resp" /\ outcome.status = 299
    /\ ~res[1].IsWorking /\ res[1].Error = "HTTP"
    /\ res[1].Latency = outcome.elapsed

====
